---- MODULE Spec2Model ----
(***************************************************************************)
(* Model of the demo web service in src/go/main.go: the probe handlers,    *)
(* the middleware chain (security headers, request logging with response   *)
(* capture), the route table built in main, and main's shutdown sequence.  *)
(*                                                                         *)
(* Time is counted in whole seconds.  A handler value (http.Handler) is    *)
(* represented by the sequence of the function names it nests, outermost   *)
(* first, the terminal handler last.                                       *)
(***************************************************************************)
EXTENDS Integers, Sequences, FiniteSets, TLC

VARIABLES
    now,          \* the process clock (time.Now), seconds
    startTime,    \* package variable startTime
    readyAfter,   \* package variable readyAfter, seconds
    reqs,         \* the requests received so far, in arrival order
    logs,         \* the records written by slog.Default().Info("request", ...)
    cw,           \* one rwCapture and the writer under it, driven call by call
    calls,        \* the WriteHeader / Write calls made on cw so far
    capRec,       \* the records withLogging has written for the driven handler
    chMws,        \* the middleware list handed to chain
    chReq,        \* the request served by the handler chain built from chMws
    mainPc,       \* where main() is
    stop,         \* the number of signals buffered in the channel stop
    srv,          \* the state of the http.Server
    inflight,     \* the number of connections with a request in flight
    elapsed,      \* seconds since srv.Shutdown was called
    mainLog,      \* what main has logged
    signals,      \* how many signals the process has been sent
    shutdownCalls \* how many times srv.Shutdown has been called

serverVars  == <<now, startTime, readyAfter, reqs, logs>>
captureVars == <<cw, calls, capRec>>
chainVars   == <<chMws, chReq>>
mainVars    == <<mainPc, stop, srv, inflight, elapsed, mainLog, signals,
                 shutdownCalls>>
vars == <<serverVars, captureVars, chainVars, mainVars>>

----------------------------------------------------------------------------
(* Bounds of the model *)

MaxNow == 3          \* the clock stops advancing here
MaxStart == 1        \* startTime is drawn from 0..MaxStart
MaxReadyAfter == 2   \* readyAfter is drawn from 0..MaxReadyAfter
MaxReq == 2          \* requests received in one run
MaxCalls == 3        \* WriteHeader / Write calls made on the driven rwCapture
MaxLen == 2          \* length of the slice given to one Write call
MaxMws == 3          \* length of the middleware list given to chain
MaxInflight == 2     \* connections with a request in flight at once

----------------------------------------------------------------------------
(* HTTP status codes used by the program *)

StatusOK == 200
StatusNotFound == 404
StatusServiceUnavailable == 503

(* The response headers the program touches; "" is an absent header. *)
HeaderNames ==
    {"X-Content-Type-Options", "X-Frame-Options", "Referrer-Policy",
     "Content-Security-Policy", "Content-Type", "Content-Length"}

NoHeaders == [h \in HeaderNames |-> ""]

(* The bodies the handlers write, and their lengths in bytes. *)
BodyLen(body) ==
    CASE body = "{\"status\":\"healthy\"}" -> 20
      [] body = "{\"status\":\"alive\"}"   -> 18
      [] body = "{\"status\":\"warming\"}" -> 20
      [] body = "{\"status\":\"ready\"}"   -> 18
      [] body = "404 page not found\n"     -> 19
      [] body = "indexHTML"                -> 64
      [] body = "AppInfo"                  -> 48
      [] body = "asset"                    -> 32
      [] body = "metrics"                  -> 40
      [] OTHER                             -> 0

----------------------------------------------------------------------------
(* The response writer.  A writer value holds the net/http writer (hdr,    *)
(* wroteHeader, code, sentHdr, bytes, body) and, when captured is TRUE,    *)
(* the rwCapture in front of it (status, size).                            *)

NewWriter ==
    [captured |-> FALSE, status |-> 0, size |-> 0,
     hdr |-> NoHeaders, wroteHeader |-> FALSE, code |-> 0,
     sentHdr |-> NoHeaders, bytes |-> 0, body |-> <<>>]

(* w.Header().Set(k, v); rwCapture promotes Header() of the embedded writer *)
HeaderSet(w, k, v) == [w EXCEPT !.hdr[k] = v]

(* w.Header().Del(k) *)
HeaderDel(w, k) == [w EXCEPT !.hdr[k] = ""]

(* http.ResponseWriter.WriteHeader: the first call sends the status line   *)
(* and the header map as it is then; a later call is superfluous and sends *)
(* nothing.                                                                *)
ResponseWriterWriteHeader(w, c) ==
    IF w.wroteHeader THEN w
    ELSE [w EXCEPT !.wroteHeader = TRUE, !.code = c, !.sentHdr = w.hdr]

(* http.ResponseWriter.Write of a slice holding body, n bytes of which the *)
(* connection accepts: a first Write with no WriteHeader sends 200.        *)
ResponseWriterWrite(w, body, n) ==
    LET w1 == ResponseWriterWriteHeader(w, StatusOK)
    IN  [w1 EXCEPT !.bytes = @ + n, !.body = Append(@, body)]

(* func (w *rwCapture) WriteHeader(code int) *)
rwCaptureWriteHeader(w, c) ==
    ResponseWriterWriteHeader([w EXCEPT !.status = c], c)

(* Faulty variant: Write sets the status to 200 whatever it was *)
rwCaptureWriteResets(w, body, n) ==
    LET w2 == ResponseWriterWrite([w EXCEPT !.status = StatusOK], body, n)
    IN  [w2 EXCEPT !.size = @ + n]

(* func (w *rwCapture) Write(b []byte) (int, error) *)
rwCaptureWrite(w, body, n) ==
    LET w1 == IF w.status = 0 THEN [w EXCEPT !.status = StatusOK] ELSE w
        w2 == ResponseWriterWrite(w1, body, n)
    IN  [w2 EXCEPT !.size = @ + n]

(* Dynamic dispatch on the writer a handler was given. *)
WriteHeader(w, c) ==
    IF w.captured THEN rwCaptureWriteHeader(w, c)
    ELSE ResponseWriterWriteHeader(w, c)

Write(w, body, n) ==
    IF w.captured THEN rwCaptureWrite(w, body, n)
    ELSE ResponseWriterWrite(w, body, n)

(* cw := &rwCapture{ResponseWriter: w} *)
Capture(w) == [w EXCEPT !.captured = TRUE, !.status = 0, !.size = 0]

----------------------------------------------------------------------------
(* Terminal handlers *)

(* func writeJSON(w http.ResponseWriter, status int, body string) *)
writeJSON(w, status, body) ==
    Write(WriteHeader(HeaderSet(w, "Content-Type", "application/json"), status),
          body, BodyLen(body))

(* time.Since(startTime) *)
SinceStart == now - startTime

(* Faulty variant: a health probe that reports failure while the service warms up *)
healthHandlerGated(w) ==
    IF SinceStart < readyAfter
    THEN writeJSON(w, StatusServiceUnavailable, "{\"status\":\"healthy\"}")
    ELSE writeJSON(w, StatusOK, "{\"status\":\"healthy\"}")

(* func healthHandler *)
healthHandler(w) == writeJSON(w, StatusOK, "{\"status\":\"healthy\"}")

(* func liveHandler *)
liveHandler(w) == writeJSON(w, StatusOK, "{\"status\":\"alive\"}")

(* Faulty variant: the boundary counted as warming *)
readyHandlerInclusive(w) ==
    IF SinceStart <= readyAfter
    THEN writeJSON(w, StatusServiceUnavailable, "{\"status\":\"warming\"}")
    ELSE writeJSON(w, StatusOK, "{\"status\":\"ready\"}")

(* Faulty variant: the comparison turned around *)
readyHandlerInverted(w) ==
    IF SinceStart > readyAfter
    THEN writeJSON(w, StatusServiceUnavailable, "{\"status\":\"warming\"}")
    ELSE writeJSON(w, StatusOK, "{\"status\":\"ready\"}")

(* func readyHandler *)
readyHandler(w) ==
    IF SinceStart < readyAfter
    THEN writeJSON(w, StatusServiceUnavailable, "{\"status\":\"warming\"}")
    ELSE writeJSON(w, StatusOK, "{\"status\":\"ready\"}")

(* http.NotFound = http.Error(w, "404 page not found", 404) *)
NotFound(w) ==
    LET w1 == HeaderDel(w, "Content-Length")
        w2 == HeaderSet(w1, "Content-Type", "text/plain; charset=utf-8")
        w3 == HeaderSet(w2, "X-Content-Type-Options", "nosniff")
    IN  Write(WriteHeader(w3, StatusNotFound), "404 page not found\n",
              BodyLen("404 page not found\n"))

(* func homeHandler: io.Copy makes one Write of indexHTML, with no        *)
(* WriteHeader before it                                                   *)
homeHandler(w, path) ==
    IF path # "/" THEN NotFound(w)
    ELSE Write(HeaderSet(w, "Content-Type", "text/html; charset=utf-8"),
               "indexHTML", BodyLen("indexHTML"))

(* func infoHandler, func versionHandler: json.Encoder makes one Write *)
infoHandler(w) ==
    Write(HeaderSet(w, "Content-Type", "application/json"),
          "AppInfo", BodyLen("AppInfo"))

versionHandler(w) ==
    Write(HeaderSet(w, "Content-Type", "application/json"),
          "AppInfo", BodyLen("AppInfo"))

(* http.StripPrefix("/static/", http.FileServer(...)) on an embedded file *)
staticHandler(w) ==
    LET w1 == HeaderSet(w, "Content-Type", "text/javascript; charset=utf-8")
        w2 == HeaderSet(w1, "Content-Length", "32")
    IN  Write(WriteHeader(w2, StatusOK), "asset", BodyLen("asset"))

(* promhttp.Handler() *)
metricsHandler(w) ==
    Write(HeaderSet(w, "Content-Type", "text/plain; version=0.0.4"),
          "metrics", BodyLen("metrics"))

(* Middleware that only leaves a trace, used to exercise chain. *)
Tracers == {"mwA", "mwB", "mwC"}

(* The call h.ServeHTTP(w, r) of the terminal handler named f. *)
Terminal(f, path, w) ==
    CASE f = "homeHandler"    -> homeHandler(w, path)
      [] f = "infoHandler"    -> infoHandler(w)
      [] f = "versionHandler" -> versionHandler(w)
      [] f = "healthHandler"  -> healthHandler(w)
      [] f = "liveHandler"    -> liveHandler(w)
      [] f = "readyHandler"   -> readyHandler(w)
      [] f = "staticHandler"  -> staticHandler(w)
      [] f = "metricsHandler" -> metricsHandler(w)
      [] OTHER                -> w

----------------------------------------------------------------------------
(* Middleware *)


(* The four w.Header().Set calls of withSecurityHeaders *)
SetSecurityHeaders(w) ==
    LET w1 == HeaderSet(w, "X-Content-Type-Options", "nosniff")
        w2 == HeaderSet(w1, "X-Frame-Options", "DENY")
        w3 == HeaderSet(w2, "Referrer-Policy", "no-referrer")
    IN  HeaderSet(w3, "Content-Security-Policy",
                  "default-src 'self'; img-src 'self' data:; style-src 'self' 'unsafe-inline'; script-src 'self'")

(* mws[i](h): the handler a middleware returns around h *)
Wrap(mw, h) == <<mw>> \o h

RECURSIVE chainLoop(_, _, _)
chainLoop(h, mws, i) ==
    IF i < 1 THEN h ELSE chainLoop(Wrap(mws[i], h), mws, i - 1)

RECURSIVE chainLoopUp(_, _, _)
chainLoopUp(h, mws, i) ==
    IF i > Len(mws) THEN h ELSE chainLoopUp(Wrap(mws[i], h), mws, i + 1)

(* Faulty variant: the loop of chain run from the first middleware to the last *)
chainForward(h, mws) == chainLoopUp(h, mws, 1)

(* func chain(h http.Handler, mws ...func(http.Handler) http.Handler) *)
chain(h, mws) == chainLoop(h, mws, Len(mws))

----------------------------------------------------------------------------
(* The route table built in main *)

Middleware == <<"withSecurityHeaders", "withLogging">>

(* Faulty variant: the readiness alias registered with the health handler *)
KubeAliasWrongHandler(p) ==
    CASE p = "/healthz" -> chain(<<"healthHandler">>, Middleware)
      [] p = "/livez"   -> chain(<<"liveHandler">>, Middleware)
      [] p = "/readyz"  -> chain(<<"healthHandler">>, Middleware)

(* The kube-style aliases, main.go lines 81-84 *)
KubeAlias(p) ==
    CASE p = "/healthz" -> chain(<<"healthHandler">>, Middleware)
      [] p = "/livez"   -> chain(<<"liveHandler">>, Middleware)
      [] p = "/readyz"  -> chain(<<"readyHandler">>, Middleware)

(* The mux.Handle calls of main: pattern -> handler *)
Registered ==
    [p \in {"/static/", "/", "/api/info", "/version", "/health", "/live",
            "/ready", "/healthz", "/livez", "/readyz", "/metrics"} |->
        CASE p = "/static/"  -> <<"staticHandler">>
          [] p = "/"         -> chain(<<"homeHandler">>, Middleware)
          [] p = "/api/info" -> chain(<<"infoHandler">>, Middleware)
          [] p = "/version"  -> chain(<<"versionHandler">>, Middleware)
          [] p = "/health"   -> chain(<<"healthHandler">>, Middleware)
          [] p = "/live"     -> chain(<<"liveHandler">>, Middleware)
          [] p = "/ready"    -> chain(<<"readyHandler">>, Middleware)
          [] p \in {"/healthz", "/livez", "/readyz"} -> KubeAlias(p)
          [] p = "/metrics"  -> <<"metricsHandler">>]

(* The request paths of the model; the last two match no exact pattern. *)
StaticPaths == {"/static/app.js"}
Paths == (DOMAIN Registered \ {"/static/"}) \cup StaticPaths \cup {"/nope"}

(* http.ServeMux: an exact pattern first, then the longest pattern ending  *)
(* in "/" that is a prefix of the path                                     *)
Route(path) ==
    IF path \in DOMAIN Registered \ {"/static/"} THEN Registered[path]
    ELSE IF path \in StaticPaths THEN Registered["/static/"]
    ELSE Registered["/"]

----------------------------------------------------------------------------
(* Serving one request.  depth is the frame of q.h that runs next (phase   *)
(* "down": its call; phase "up": the return into it).                      *)

NewRequest(path, h) ==
    [path |-> path, h |-> h, depth |-> 1, phase |-> "down", w |-> NewWriter,
     start |-> 0, trace |-> <<>>]

Event(ev, f) == [ev |-> ev, h |-> f]

(* Faulty variant: next.ServeHTTP called before the headers are set *)
withSecurityHeadersLate(q) ==
    [q EXCEPT !.trace = Append(@, Event("pre", "withSecurityHeaders")),
              !.depth = @ + 1]

(* withSecurityHeaders, up to its call of next.ServeHTTP *)
withSecurityHeadersCall(q) ==
    [q EXCEPT !.w = SetSecurityHeaders(@),
              !.trace = Append(@, Event("pre", "withSecurityHeaders")),
              !.depth = @ + 1]

(* withLogging, up to its call of next.ServeHTTP(cw, r) *)
withLoggingCall(q) ==
    [q EXCEPT !.start = now,
              !.w = Capture(@),
              !.trace = Append(@, Event("pre", "withLogging")),
              !.depth = @ + 1]

(* A frame of q.h is called. *)
Call(q) ==
    LET f == q.h[q.depth]
    IN  CASE f = "withSecurityHeaders" -> withSecurityHeadersCall(q)
          [] f = "withLogging"         -> withLoggingCall(q)
          [] f \in Tracers ->
                [q EXCEPT !.trace = Append(@, Event("pre", f)), !.depth = @ + 1]
          [] OTHER ->
                [q EXCEPT !.w = Terminal(f, q.path, @),
                          !.trace = Append(@, Event("serve", f)),
                          !.depth = @ - 1,
                          !.phase = IF q.depth = 1 THEN "done" ELSE "up"]

(* next.ServeHTTP has returned into frame q.depth, which now finishes. *)
Return(q) ==
    [q EXCEPT !.trace = Append(@, Event("post", q.h[q.depth])),
              !.depth = @ - 1,
              !.phase = IF q.depth = 1 THEN "done" ELSE "up"]

(* h.ServeHTTP(w, r) run to its return: every call and every return of   *)
(* the chain, in order                                                     *)
RECURSIVE ServeHTTP(_)
ServeHTTP(q) ==
    IF q.phase = "down" THEN ServeHTTP(Call(q))
    ELSE IF q.phase = "up" THEN ServeHTTP(Return(q))
    ELSE q

(* time.Since(start).Milliseconds() *)
DurMs(q) == (now - q.start) * 1000

(* The record withLogging writes for request i once next has returned. *)
LogRecord(i, q) ==
    [req |-> i, path |-> q.path, status |-> q.w.status, bytes |-> q.w.size,
     dur_ms |-> DurMs(q)]

(* Faulty variant: a record written at the return of every middleware *)
EmitEveryFrame(l, i, q) == Append(l, LogRecord(i, q))

(* Faulty variant: the record put in front of the log *)
EmitInFront(l, i, q) ==
    IF q.h[q.depth] = "withLogging" THEN <<LogRecord(i, q)>> \o l ELSE l

(* What a return into frame q.depth of request i adds to the log. *)
Emit(l, i, q) ==
    IF q.h[q.depth] = "withLogging" THEN Append(l, LogRecord(i, q)) ELSE l

----------------------------------------------------------------------------
(* The server: requests arrive, run down their handler chain and back up,  *)
(* concurrently, while the clock advances.                                 *)

ServerIdle ==
    /\ now = 0 /\ startTime = 0 /\ readyAfter = 2
    /\ reqs = <<>> /\ logs = <<>>

ServerInit ==
    /\ startTime \in 0..MaxStart
    /\ now = startTime
    /\ readyAfter \in 0..MaxReadyAfter
    /\ reqs = <<>>
    /\ logs = <<>>

Arrive ==
    /\ Len(reqs) < MaxReq
    /\ \E path \in Paths : reqs' = Append(reqs, NewRequest(path, Route(path)))
    /\ UNCHANGED <<now, startTime, readyAfter, logs>>

Enter ==
    \E i \in DOMAIN reqs :
        /\ reqs[i].phase = "down"
        /\ reqs' = [reqs EXCEPT ![i] = Call(reqs[i])]
        /\ UNCHANGED <<now, startTime, readyAfter, logs>>

Leave ==
    \E i \in DOMAIN reqs :
        /\ reqs[i].phase = "up"
        /\ logs' = Emit(logs, i, reqs[i])
        /\ reqs' = [reqs EXCEPT ![i] = Return(reqs[i])]
        /\ UNCHANGED <<now, startTime, readyAfter>>

Tick ==
    /\ now < MaxNow
    /\ now' = now + 1
    /\ UNCHANGED <<startTime, readyAfter, reqs, logs>>

----------------------------------------------------------------------------
(* One rwCapture driven by an arbitrary handler: any sequence of           *)
(* WriteHeader and Write calls, each Write accepted in full or in part by  *)
(* the writer underneath.                                                  *)

Codes == {StatusOK, StatusNotFound, StatusServiceUnavailable}

CaptureInit ==
    /\ cw = Capture(NewWriter)
    /\ calls = <<>>
    /\ capRec = <<>>

CallWriteHeader ==
    /\ capRec = <<>>
    /\ Len(calls) < MaxCalls
    /\ \E c \in Codes :
        /\ cw' = rwCaptureWriteHeader(cw, c)
        /\ calls' = Append(calls, [op |-> "WriteHeader", arg |-> c, n |-> 0])
    /\ UNCHANGED capRec

CallWrite ==
    /\ capRec = <<>>
    /\ Len(calls) < MaxCalls
    /\ \E len \in 0..MaxLen : \E n \in 0..len :
        /\ cw' = rwCaptureWrite(cw, "b", n)
        /\ calls' = Append(calls, [op |-> "Write", arg |-> len, n |-> n])
    /\ UNCHANGED capRec

(* net/http once the outermost handler has returned: a response whose     *)
(* header was never written is sent with status 200                        *)
FinishRequest(w) == ResponseWriterWriteHeader(w, StatusOK)

(* The driven handler returns: withLogging writes its record from the     *)
(* rwCapture and returns in turn, and the server finishes the response.    *)
HandlerReturn ==
    /\ capRec = <<>>
    /\ capRec' = Append(capRec, LogRecord(1, [NewRequest("/t", <<>>) EXCEPT !.w = cw]))
    /\ cw' = FinishRequest(cw)
    /\ UNCHANGED calls

----------------------------------------------------------------------------
(* chain applied to an arbitrary middleware list, and one request served   *)
(* by the handler it returns.                                              *)

RECURSIVE ListsUpTo(_, _)
ListsUpTo(S, n) ==
    IF n = 0 THEN {<<>>}
    ELSE LET shorter == ListsUpTo(S, n - 1)
         IN  shorter \cup {Append(l, x) : l \in shorter, x \in S}

NoRequest == [NewRequest("", <<>>) EXCEPT !.phase = "idle"]

ChainInit ==
    /\ chMws \in ListsUpTo(Tracers, MaxMws)
    /\ chReq = NoRequest

ChainIdle ==
    /\ chMws = <<>>
    /\ chReq = NoRequest

ChainBuild ==
    /\ chReq.phase = "idle"
    /\ chReq' = NewRequest("/t", chain(<<"T">>, chMws))
    /\ UNCHANGED chMws

ChainEnter ==
    /\ chReq.phase = "down"
    /\ chReq' = Call(chReq)
    /\ UNCHANGED chMws

ChainLeave ==
    /\ chReq.phase = "up"
    /\ chReq' = Return(chReq)
    /\ UNCHANGED chMws

----------------------------------------------------------------------------
(* main from signal.Notify on (lines 100-118): the goroutine running       *)
(* srv.ListenAndServe, the wait on the channel stop, srv.Shutdown under    *)
(* its context.WithTimeout, and the return.  A request in flight may take  *)
(* arbitrarily long.  The goroutine's log.Fatalf branch (ListenAndServe    *)
(* failing with an error other than ErrServerClosed) is a start-up failure *)
(* that ends the process at once; the runs modelled here are those of a    *)
(* process whose listener starts.                                          *)

ShutdownTimeout == 10     \* context.WithTimeout(..., 10*time.Second)
StopCap == 1              \* make(chan os.Signal, 1)
MaxSignals == 2           \* signals delivered to the process in one run

MainInit ==
    /\ mainPc = "waiting"
    /\ stop = 0
    /\ srv = "new"
    /\ inflight = 0
    /\ elapsed = 0
    /\ mainLog = <<>>
    /\ signals = 0
    /\ shutdownCalls = 0

(* srv.ListenAndServe in the goroutine starts accepting connections *)
Listen ==
    /\ mainPc # "returned"
    /\ srv = "new"
    /\ srv' = "listening"
    /\ UNCHANGED <<mainPc, stop, inflight, elapsed, mainLog, signals, shutdownCalls>>

(* os.Interrupt or SIGTERM: signal.Notify's sender does not block, so a    *)
(* signal that finds the channel full is dropped                           *)
Signal ==
    /\ mainPc # "returned"
    /\ signals < MaxSignals
    /\ signals' = signals + 1
    /\ stop' = IF stop < StopCap THEN stop + 1 ELSE stop
    /\ UNCHANGED <<mainPc, srv, inflight, elapsed, mainLog, shutdownCalls>>

RequestBegin ==
    /\ mainPc # "returned"
    /\ srv = "listening"
    /\ inflight < MaxInflight
    /\ inflight' = inflight + 1
    /\ UNCHANGED <<mainPc, stop, srv, elapsed, mainLog, signals, shutdownCalls>>

RequestEnd ==
    /\ mainPc # "returned"
    /\ inflight > 0
    /\ inflight' = inflight - 1
    /\ UNCHANGED <<mainPc, stop, srv, elapsed, mainLog, signals, shutdownCalls>>

(* <-stop; logger.Info("shutdown signal received") *)
Receive ==
    /\ mainPc = "waiting"
    /\ stop > 0
    /\ stop' = stop - 1
    /\ mainLog' = Append(mainLog, "shutdown signal received")
    /\ mainPc' = "received"
    /\ UNCHANGED <<srv, inflight, elapsed, signals, shutdownCalls>>

(* ctx, cancel := context.WithTimeout(...); srv.Shutdown(ctx) is entered:  *)
(* the listeners are closed, no new connection is accepted                 *)
CallShutdown ==
    /\ mainPc = "received"
    /\ mainPc' = "shutdown"
    /\ srv' = "closed"
    /\ elapsed' = 0
    /\ shutdownCalls' = shutdownCalls + 1
    /\ UNCHANGED <<stop, inflight, mainLog, signals>>

(* a second passes while srv.Shutdown polls for idle connections *)
DrainTick ==
    /\ mainPc = "shutdown"
    /\ elapsed < ShutdownTimeout
    /\ elapsed' = elapsed + 1
    /\ UNCHANGED <<mainPc, stop, srv, inflight, mainLog, signals, shutdownCalls>>

(* srv.Shutdown returns nil: every connection is idle *)
ShutdownClean ==
    /\ mainPc = "shutdown"
    /\ inflight = 0
    /\ mainLog' = Append(mainLog, "server stopped cleanly")
    /\ mainPc' = "returned"
    /\ UNCHANGED <<stop, srv, inflight, elapsed, signals, shutdownCalls>>

(* Faulty variant: srv.Shutdown given a context with no deadline *)
ShutdownNoDeadline ==
    /\ mainPc = "shutdown"
    /\ inflight = 0
    /\ elapsed >= ShutdownTimeout
    /\ mainLog' = Append(mainLog, "server shutdown error")
    /\ mainPc' = "returned"
    /\ UNCHANGED <<stop, srv, inflight, elapsed, signals, shutdownCalls>>

(* srv.Shutdown returns ctx.Err(): the deadline has passed *)
ShutdownExpire ==
    /\ mainPc = "shutdown"
    /\ elapsed >= ShutdownTimeout
    /\ mainLog' = Append(mainLog, "server shutdown error")
    /\ mainPc' = "returned"
    /\ UNCHANGED <<stop, srv, inflight, elapsed, signals, shutdownCalls>>

MainIdle == MainInit

----------------------------------------------------------------------------
(* Specifications *)

Init == ServerInit /\ CaptureInit /\ ChainIdle /\ MainIdle

Next ==
    \/ Arrive /\ UNCHANGED <<captureVars, chainVars, mainVars>>
    \/ Enter  /\ UNCHANGED <<captureVars, chainVars, mainVars>>
    \/ Leave  /\ UNCHANGED <<captureVars, chainVars, mainVars>>
    \/ Tick   /\ UNCHANGED <<captureVars, chainVars, mainVars>>

Spec == Init /\ [][Next]_vars

InitCapture == ServerIdle /\ CaptureInit /\ ChainIdle /\ MainIdle

NextCapture ==
    \/ CallWriteHeader /\ UNCHANGED <<serverVars, chainVars, mainVars>>
    \/ CallWrite       /\ UNCHANGED <<serverVars, chainVars, mainVars>>
    \/ HandlerReturn   /\ UNCHANGED <<serverVars, chainVars, mainVars>>

SpecCapture == InitCapture /\ [][NextCapture]_vars

InitChain == ServerIdle /\ CaptureInit /\ ChainInit /\ MainIdle

NextChain ==
    \/ ChainBuild /\ UNCHANGED <<serverVars, captureVars, mainVars>>
    \/ ChainEnter /\ UNCHANGED <<serverVars, captureVars, mainVars>>
    \/ ChainLeave /\ UNCHANGED <<serverVars, captureVars, mainVars>>

SpecChain == InitChain /\ [][NextChain]_vars

InitMain == ServerIdle /\ CaptureInit /\ ChainIdle /\ MainInit

NextMain ==
    (Listen \/ Signal \/ RequestBegin \/ RequestEnd \/ Receive \/ CallShutdown
        \/ DrainTick \/ ShutdownClean \/ ShutdownExpire)
    /\ UNCHANGED <<serverVars, captureVars, chainVars>>

(* The main goroutine is scheduled and time passes; nothing makes a        *)
(* request in flight finish.                                               *)
SpecMain ==
    /\ InitMain
    /\ [][NextMain]_vars
    /\ WF_vars(CallShutdown /\ UNCHANGED <<serverVars, captureVars, chainVars>>)
    /\ WF_vars(DrainTick /\ UNCHANGED <<serverVars, captureVars, chainVars>>)
    /\ WF_vars(ShutdownClean /\ UNCHANGED <<serverVars, captureVars, chainVars>>)
    /\ WF_vars(ShutdownExpire /\ UNCHANGED <<serverVars, captureVars, chainVars>>)

----------------------------------------------------------------------------
(* Vocabulary of the properties *)

(* The terminal handler of request q has run. *)
Served(q) == q.phase \in {"up", "done"}

TerminalOf(q) == q.h[Len(q.h)]

(* Request i's terminal handler runs in this step. *)
ServedNow(i) ==
    /\ i \in DOMAIN reqs
    /\ reqs[i].phase = "down"
    /\ reqs'[i].phase # "down"

Has(q, f) == \E k \in DOMAIN q.h : q.h[k] = f

IndexOf(q, f) == CHOOSE k \in DOMAIN q.h : q.h[k] = f

Answered(q, c, body) == q.w.wroteHeader /\ q.w.code = c /\ q.w.body = <<body>>

RecordsOf(i) == {k \in DOMAIN logs : logs[k].req = i}

----------------------------------------------------------------------------
(* C1: readyHandler answers 503 {"status":"warming"} when now - startTime  *)
(* < readyAfter and 200 {"status":"ready"} when now - startTime >=         *)
(* readyAfter, the boundary included; it produces nothing else.            *)

C1_ReadyProbe ==
    /\ [][\A i \in DOMAIN reqs :
            (ServedNow(i) /\ TerminalOf(reqs[i]) = "readyHandler") =>
                IF now - startTime < readyAfter
                THEN Answered(reqs'[i], 503, "{\"status\":\"warming\"}")
                ELSE Answered(reqs'[i], 200, "{\"status\":\"ready\"}")]_vars
    /\ [](\A i \in DOMAIN reqs :
            (Served(reqs[i]) /\ TerminalOf(reqs[i]) = "readyHandler") =>
                \/ Answered(reqs[i], 503, "{\"status\":\"warming\"}")
                \/ Answered(reqs[i], 200, "{\"status\":\"ready\"}"))

(* A ready probe answered 200 exactly at the boundary, another one 503. *)
C1_Witness ==
    /\ now - startTime = readyAfter
    /\ \E i, j \in DOMAIN reqs :
        /\ TerminalOf(reqs[i]) = "readyHandler"
        /\ TerminalOf(reqs[j]) = "readyHandler"
        /\ Answered(reqs[i], 503, "{\"status\":\"warming\"}")
        /\ Answered(reqs[j], 200, "{\"status\":\"ready\"}")

----------------------------------------------------------------------------
(* C2: readiness is one-way: once a ready probe has been answered 200, no  *)
(* ready probe handled later by the same process is answered 503.          *)

SomeReadyAnswer ==
    \E i \in DOMAIN reqs :
        /\ TerminalOf(reqs[i]) = "readyHandler"
        /\ Served(reqs[i])
        /\ reqs[i].w.code = 200

C2_OneWay ==
    [][SomeReadyAnswer =>
        \A j \in DOMAIN reqs :
            (ServedNow(j) /\ TerminalOf(reqs[j]) = "readyHandler") =>
                reqs'[j].w.code # 503]_vars

(* Two ready probes answered 200, the clock past the threshold. *)
C2_Witness ==
    /\ now - startTime > readyAfter
    /\ \E i, j \in DOMAIN reqs :
        /\ i < j
        /\ TerminalOf(reqs[i]) = "readyHandler" /\ Served(reqs[i])
        /\ TerminalOf(reqs[j]) = "readyHandler" /\ Served(reqs[j])
        /\ reqs[i].w.code = 200 /\ reqs[j].w.code = 200

----------------------------------------------------------------------------
(* C3: healthHandler always answers 200 {"status":"healthy"} and           *)
(* liveHandler 200 {"status":"alive"}, whether the service is warming or   *)
(* ready.                                                                  *)

C3_HealthLive ==
    \A i \in DOMAIN reqs :
        Served(reqs[i]) =>
            /\ TerminalOf(reqs[i]) = "healthHandler" =>
                    Answered(reqs[i], 200, "{\"status\":\"healthy\"}")
            /\ TerminalOf(reqs[i]) = "liveHandler" =>
                    Answered(reqs[i], 200, "{\"status\":\"alive\"}")

(* A health probe and a live probe answered while the service is warming. *)
C3_Witness ==
    /\ now - startTime < readyAfter
    /\ \E i, j \in DOMAIN reqs :
        /\ TerminalOf(reqs[i]) = "healthHandler" /\ Served(reqs[i])
        /\ TerminalOf(reqs[j]) = "liveHandler" /\ Served(reqs[j])

----------------------------------------------------------------------------
(* C4: a response produced under withSecurityHeaders carries the four      *)
(* security headers with their exact values, the 503 and the not-found     *)
(* responses included, and the headers are set before the inner handler    *)
(* runs: before any status or body is written.                             *)

SecurityHeaderValue(k) ==
    CASE k = "X-Content-Type-Options"  -> "nosniff"
      [] k = "X-Frame-Options"         -> "DENY"
      [] k = "Referrer-Policy"         -> "no-referrer"
      [] k = "Content-Security-Policy" ->
            "default-src 'self'; img-src 'self' data:; style-src 'self' 'unsafe-inline'; script-src 'self'"

SecurityHeaderNames ==
    {"X-Content-Type-Options", "X-Frame-Options", "Referrer-Policy",
     "Content-Security-Policy"}

Carries(hdr) == \A k \in SecurityHeaderNames : hdr[k] = SecurityHeaderValue(k)

C4_SecurityHeaders ==
    \A i \in DOMAIN reqs :
        LET q == reqs[i]
        IN  Has(q, "withSecurityHeaders") =>
                /\ q.w.wroteHeader => Carries(q.w.sentHdr)
                /\ (q.depth > IndexOf(q, "withSecurityHeaders") \/ Served(q)) =>
                        Carries(q.w.hdr)
                /\ (q.phase = "down" /\ q.depth <= IndexOf(q, "withSecurityHeaders")) =>
                        (~q.w.wroteHeader /\ q.w.bytes = 0)

(* A not-found response of homeHandler and a 503 of readyHandler, sent. *)
C4_Witness ==
    \E i, j \in DOMAIN reqs :
        /\ TerminalOf(reqs[i]) = "homeHandler" /\ reqs[i].w.code = 404
        /\ TerminalOf(reqs[j]) = "readyHandler" /\ reqs[j].w.code = 503
        /\ Carries(reqs[i].w.sentHdr) /\ Carries(reqs[j].w.sentHdr)

----------------------------------------------------------------------------
(* C5: every request on a route registered in main (/, /api/info,          *)
(* /version, the six probe paths and /static/...) passes through           *)
(* withSecurityHeaders and then withLogging before its terminal handler    *)
(* runs: it is answered with the security headers and leaves one log       *)
(* record.                                                                 *)

ClaimedPaths == Paths \ {"/metrics"}

C5_EveryRouteWrapped ==
    \A i \in DOMAIN reqs :
        LET q == reqs[i]
        IN  (q.path \in ClaimedPaths /\ Served(q)) =>
                /\ Len(q.trace) >= 3
                /\ q.trace[1] = Event("pre", "withSecurityHeaders")
                /\ q.trace[2] = Event("pre", "withLogging")
                /\ q.trace[3].ev = "serve"
                /\ Carries(q.w.sentHdr)
                /\ q.phase = "done" => Cardinality(RecordsOf(i)) = 1

----------------------------------------------------------------------------
(* C6: chain(T, m1, ..., mn) is m1(m2(...mn(T))), and chain(T) is T: on a  *)
(* request the middleware run their pre-handler steps in list order, T     *)
(* runs once, and the post-handler steps run in reverse order.             *)

RECURSIVE Nest(_, _)
Nest(mws, t) ==
    IF mws = <<>> THEN t ELSE Wrap(Head(mws), Nest(Tail(mws), t))

ExpectedTrace(mws, t) ==
    LET n == Len(mws)
    IN  [k \in 1..(2 * n + 1) |->
            IF k <= n THEN Event("pre", mws[k])
            ELSE IF k = n + 1 THEN Event("serve", t)
            ELSE Event("post", mws[2 * n + 2 - k])]

C6_ChainOrder ==
    chReq.phase # "idle" =>
        LET e == ExpectedTrace(chMws, "T")
            t == chReq.trace
        IN  /\ chReq.h = Nest(chMws, <<"T">>)
            /\ chMws = <<>> => chReq.h = <<"T">>
            /\ Len(t) <= Len(e)
            /\ \A k \in DOMAIN t : t[k] = e[k]
            /\ chReq.phase = "done" => Len(t) = Len(e)

(* A request served to the end by a chain of three different middleware. *)
C6_Witness ==
    /\ chReq.phase = "done"
    /\ Len(chMws) = 3
    /\ chMws[1] # chMws[2] /\ chMws[2] # chMws[3] /\ chMws[1] # chMws[3]
    /\ Len(chReq.trace) = 7

----------------------------------------------------------------------------
(* C7: after any sequence of WriteHeader and Write calls on an rwCapture,  *)
(* size is the sum of the byte counts the writer underneath reported for   *)
(* the Write calls, and status is the code of the last WriteHeader call,   *)
(* or 200 when Write was called and WriteHeader never was.                 *)

RECURSIVE SumN(_)
SumN(cs) ==
    IF cs = <<>> THEN 0
    ELSE (IF Head(cs).op = "Write" THEN Head(cs).n ELSE 0) + SumN(Tail(cs))

WriteHeaderCalls == {k \in DOMAIN calls : calls[k].op = "WriteHeader"}
WriteCalls == {k \in DOMAIN calls : calls[k].op = "Write"}

LastOf(S) == CHOOSE k \in S : \A j \in S : j <= k

C7_Capture ==
    /\ cw.size = SumN(calls)
    /\ WriteHeaderCalls # {} => cw.status = calls[LastOf(WriteHeaderCalls)].arg
    /\ (WriteHeaderCalls = {} /\ WriteCalls # {}) => cw.status = 200

(* A short Write, then a WriteHeader, then another Write. *)
C7_Witness ==
    /\ Len(calls) = 3
    /\ calls[1].op = "Write" /\ calls[1].n < calls[1].arg
    /\ calls[2].op = "WriteHeader" /\ calls[2].arg = 404
    /\ calls[3].op = "Write" /\ calls[3].n > 0

----------------------------------------------------------------------------
(* C8: for a request whose inner handler returns, withLogging writes       *)
(* exactly one record, after the inner handler has returned, holding the   *)
(* status and size of the rwCapture; no record is written before or while  *)
(* the inner handler runs.                                                 *)

(* withLogging has finished for q: the call of next has returned and the  *)
(* record has been written.                                                *)
LoggingDone(q) ==
    \/ q.phase = "done"
    \/ q.phase = "up" /\ q.depth < IndexOf(q, "withLogging")

C8_OneRecordAfterReturn ==
    \A i \in DOMAIN reqs :
        LET q == reqs[i]
        IN  Has(q, "withLogging") =>
                IF LoggingDone(q)
                THEN /\ Cardinality(RecordsOf(i)) = 1
                     /\ \A k \in RecordsOf(i) :
                            /\ logs[k].status = q.w.status
                            /\ logs[k].bytes = q.w.size
                ELSE RecordsOf(i) = {}

(* A 503 of the ready probe logged with its status and its 20 bytes,      *)
(* while another request's inner handler has returned and its record is    *)
(* still to be written.                                                    *)
C8_Witness ==
    \E i, j \in DOMAIN reqs :
        /\ reqs[i].phase = "done"
        /\ \E k \in RecordsOf(i) : logs[k].status = 503 /\ logs[k].bytes = 20
        /\ Has(reqs[j], "withLogging")
        /\ reqs[j].phase = "up" /\ reqs[j].depth = IndexOf(reqs[j], "withLogging")
        /\ RecordsOf(j) = {}

----------------------------------------------------------------------------
(* C9: each probe is registered under two paths that behave identically:   *)
(* in every state a request to /healthz is answered as one to /health,     *)
(* /livez as /live and /readyz as /ready, under the same middleware.       *)

AliasOf(path) ==
    CASE path = "/health"  -> "/healthz"
      [] path = "/healthz" -> "/health"
      [] path = "/live"    -> "/livez"
      [] path = "/livez"   -> "/live"
      [] path = "/ready"   -> "/readyz"
      [] path = "/readyz"  -> "/ready"

ProbePaths == {"/health", "/healthz", "/live", "/livez", "/ready", "/readyz"}

(* The response a request to path would get if served now. *)
Respond(path) == ServeHTTP(NewRequest(path, Route(path)))

C9_Aliases ==
    /\ [](\A p \in ProbePaths : Route(p) = Route(AliasOf(p)))
    /\ [][\A i \in DOMAIN reqs :
            (ServedNow(i) /\ reqs[i].path \in ProbePaths) =>
                LET other == Respond(AliasOf(reqs[i].path))
                IN  /\ reqs'[i].w = other.w
                    /\ reqs'[i].trace = SubSeq(other.trace, 1, Len(reqs'[i].trace))
                    /\ reqs[i].h = other.h]_vars

(* /ready and /readyz both served to the end, one while warming and one   *)
(* once ready.                                                             *)
C9_Witness ==
    \E i, j \in DOMAIN reqs :
        /\ reqs[i].path = "/ready" /\ reqs[i].phase = "done"
        /\ reqs[j].path = "/readyz" /\ reqs[j].phase = "done"
        /\ reqs[i].w.code = 503 /\ reqs[j].w.code = 200

----------------------------------------------------------------------------
(* C10: once main has received a shutdown signal it calls srv.Shutdown     *)
(* once, the drain lasts at most the fixed timeout, and main returns in    *)
(* every case: a drain that times out is logged as an error and main       *)
(* still returns; nothing of the shutdown runs before a signal arrives.    *)

Last(l) == l[Len(l)]

C10_Shutdown ==
    /\ []((mainPc # "waiting" \/ srv = "closed" \/ shutdownCalls > 0 \/ mainLog # <<>>)
            => signals > 0)
    /\ [](elapsed <= ShutdownTimeout)
    /\ [](shutdownCalls <= 1)
    /\ [](mainPc = "returned" =>
            /\ shutdownCalls = 1
            /\ Last(mainLog) \in {"server stopped cleanly", "server shutdown error"}
            /\ inflight > 0 => Last(mainLog) = "server shutdown error")
    /\ (mainPc = "received" ~> mainPc = "returned")

(* main has returned after a drain that timed out, a request still in     *)
(* flight, a second signal left unread in the channel.                     *)
C10_Witness ==
    /\ mainPc = "returned"
    /\ inflight > 0
    /\ elapsed = ShutdownTimeout
    /\ mainLog = <<"shutdown signal received", "server shutdown error">>
    /\ stop = 1

----------------------------------------------------------------------------
(* C11: log records follow completion, not arrival: for two requests A and *)
(* B, when A's record is in the log before B's inner handler has returned  *)
(* (indeed before B's record is written), A's record precedes B's, even    *)
(* when B arrived first.                                                   *)

RecordsOfNext(i) == {k \in DOMAIN logs' : logs'[k].req = i}

(* withLogging's call of next has not returned yet for q. *)
InnerRunning(q) ==
    /\ Has(q, "withLogging")
    /\ q.phase = "down"
    /\ q.depth > IndexOf(q, "withLogging")

C11_CompletionOrder ==
    /\ [][\A a, b \in DOMAIN reqs :
            (RecordsOf(a) # {} /\ RecordsOf(b) = {}) =>
                /\ \A ka \in RecordsOf(a) : logs'[ka] = logs[ka]
                /\ \A ka \in RecordsOfNext(a), kb \in RecordsOfNext(b) : ka < kb]_vars
    /\ [](\A a, b \in DOMAIN reqs :
            (RecordsOf(a) # {} /\ InnerRunning(reqs[b])) => RecordsOf(b) = {})

(* B arrived first and ran its ready probe after the warm-up; A arrived   *)
(* later, was answered while warming, and its record precedes B's.         *)
C11_Witness ==
    \E a, b \in DOMAIN reqs :
        /\ b < a
        /\ reqs[a].w.code = 503 /\ reqs[b].w.code = 200
        /\ \E ka \in RecordsOf(a), kb \in RecordsOf(b) : ka < kb

----------------------------------------------------------------------------
(* C12: the status in a request's log record is the status code the       *)
(* response writer under the rwCapture sent to the client, for any         *)
(* sequence of WriteHeader and Write calls of the inner handler: none at   *)
(* all, WriteHeader more than once, WriteHeader after a Write.             *)

C12_LoggedStatusIsSent ==
    \A k \in DOMAIN capRec : capRec[k].status = cw.code

====
